---- MODULE Spec2Model ----
(***************************************************************************)
(* Model of doc/thirdparty/doxygen/dedup_index.py: xsl_transform() and its *)
(* driver doxy_deduplicate_index().  A file is a sequence of XML tokens;   *)
(* the file system maps a path to a file that exists or not.  One step of  *)
(* the model is one statement of the script.                               *)
(***************************************************************************)
EXTENDS Naturals, Sequences, FiniteSets

VARIABLES
    entry,            \* "driver": the script is run; "call": xsl_transform is called
    args,             \* [inDoc, xslFile, outDoc]: the paths of the call
    fs,               \* path -> [exists, text]
    pc,               \* the statement to execute next
    doc,              \* local of xsl_transform (line 6)
    xslt,             \* local of xsl_transform (line 7)
    transform,        \* local of xsl_transform (line 8)
    transformed_doc,  \* local of xsl_transform (line 9)
    exc,              \* the exception that ended the run, "" when none
    stdout,           \* the lines printed by this process
    log,              \* history: the steps this run has started, in order
    before,           \* history: the file system when this run started
    runs,             \* history: number of runs started
    prevOutcome       \* history: how the previous run ended

vars == <<entry, args, fs, pc, doc, xslt, transform, transformed_doc, exc,
          stdout, log, before, runs, prevOutcome>>

\* ------------------------------------------------------------------ bounds
MaxCompounds == 3
MaxRuns == 2

\* ------------------------------------------------------------------ paths
IndexXml == "xml/index.xml"
DedupXsl == "thirdparty/doxygen/dedup_index.xsl"
OtherXml == "xml/other.xml"
Paths == {IndexXml, DedupXsl, OtherXml}

CompletionMessage == "Removed duplicated <compound> elements in index.xml"

\* ------------------------------------------------------------------ XML text
Keys == {"A", "B"}

OpenTag(n) == [t |-> "open", n |-> n, attr |-> ""]
CloseTag(n) == [t |-> "close", n |-> n, attr |-> ""]
Compound(k) == [t |-> "empty", n |-> "compound", attr |-> k]
Template(r) == [t |-> "empty", n |-> "xsl:template", attr |-> r]
Message(r) == [t |-> "empty", n |-> "xsl:message", attr |-> r]
NL == [t |-> "text", n |-> "\n", attr |-> ""]

NoFile == [exists |-> FALSE, text |-> <<>>]
File(text) == [exists |-> TRUE, text |-> text]

NoTree == [root |-> "", children |-> <<>>]

SeqsUpTo(S, n) == UNION {[1..k -> S] : k \in 0..n}

IndexDoc(keys) ==
    <<OpenTag("index")>> \o [i \in 1..Len(keys) |-> Compound(keys[i])]
        \o <<CloseTag("index")>>

Stylesheet(rule) ==
    <<OpenTag("xsl:stylesheet"), rule, CloseTag("xsl:stylesheet")>>

\* An index document cut off before its closing tag.
MalformedText == <<OpenTag("index"), Compound("A")>>


\* ------------------------------------------------------------------ lxml
\* Mutant: a parser that takes a line end after the root element for content.
KeepTrailingWhitespace(text) == text

RECURSIVE StripTrailingWhitespace(_)
StripTrailingWhitespace(text) ==
    IF Len(text) > 0 /\ text[Len(text)] = NL
    THEN StripTrailingWhitespace(SubSeq(text, 1, Len(text) - 1))
    ELSE text

\* The parser accepts one root element holding empty elements, followed by
\* nothing but whitespace.
WellFormed(text) ==
    LET body == StripTrailingWhitespace(text)
    IN  /\ Len(body) >= 2
        /\ body[1].t = "open"
        /\ body[Len(body)].t = "close"
        /\ body[Len(body)].n = body[1].n
        /\ \A i \in 2..(Len(body) - 1) : body[i].t = "empty"

\* Mutant: a recovering parser, which makes a tree of any text it can start on.
CanParseLenient(file) == file.exists /\ Len(file.text) > 0

\* ET.parse(path): the tree of a readable, well-formed file.
CanParse(file) == file.exists /\ WellFormed(file.text)

ParseError(file) == IF file.exists THEN "XMLSyntaxError" ELSE "OSError"

Parse(text) ==
    LET body == StripTrailingWhitespace(text)
    IN  [root |-> body[1].n, children |-> SubSeq(body, 2, Len(body) - 1)]

HasChild(tree, el) == \E i \in 1..Len(tree.children) : tree.children[i] = el

\* ET.XSLT(tree): the tree is a stylesheet whose instructions compile.
Compiles(tree) ==
    /\ tree.root = "xsl:stylesheet"
    /\ \A i \in 1..Len(tree.children) :
           tree.children[i].n \in {"xsl:template", "xsl:message"}
    /\ ~HasChild(tree, Template("bad-xpath"))

\* transform(doc) raises when the stylesheet terminates the transformation.
Runs(sheet) == ~HasChild(sheet, Message("terminate"))

\* dedup_index.xsl: copy the document, keeping of the <compound> elements
\* the first one of each refid.
RECURSIVE KeepFirstPerKey(_, _)
KeepFirstPerKey(children, seen) ==
    IF children = <<>> THEN <<>>
    ELSE LET c == Head(children)
         IN  IF c.n = "compound" /\ c.attr \in seen
             THEN KeepFirstPerKey(Tail(children), seen)
             ELSE <<c>> \o KeepFirstPerKey(Tail(children),
                        IF c.n = "compound" THEN seen \cup {c.attr} ELSE seen)

\* transform(doc): the result tree of applying the compiled stylesheet.
Apply(sheet, tree) ==
    IF HasChild(sheet, Template("first-per-refid"))
    THEN [root |-> tree.root, children |-> KeepFirstPerKey(tree.children, {})]
    ELSE tree

\* str(transformed_doc)
Serialize(tree) ==
    <<OpenTag(tree.root)>> \o tree.children \o <<CloseTag(tree.root)>>

\* print(transformed_doc, file=f): the serialization and the line end.
PrintedText(tree) == Serialize(tree) \o <<NL>>

\* Mutant: open(path, 'a'), which keeps what the file holds.
OpenForAppending(files, path) ==
    [files EXCEPT ![path] = File(files[path].text)]

\* open(path, 'w'): the file exists and is empty.
OpenForWriting(files, path) == [files EXCEPT ![path] = File(<<>>)]

\* Mutant: the text is written to the input path, not to the path opened.
WriteTextToInput(files, path, text) ==
    [files EXCEPT ![args.inDoc] = File(files[args.inDoc].text \o text)]

\* f.write(text): the text goes after what the file holds.
WriteText(files, path, text) ==
    [files EXCEPT ![path] = File(files[path].text \o text)]

\* ------------------------------------------------------------------ control
\* Mutant: the output file is opened before the transform is executed.
FollowingOpenEarly(stmt) ==
    CASE stmt = "read_input" -> "read_stylesheet"
      [] stmt = "read_stylesheet" -> "compile"
      [] stmt = "compile" -> "open"
      [] stmt = "open" -> "execute"
      [] stmt = "execute" -> "write"
      [] stmt = "write" -> "return"

\* The statements of xsl_transform in program order (lines 6 to 12).
Following(stmt) ==
    CASE stmt = "read_input" -> "read_stylesheet"
      [] stmt = "read_stylesheet" -> "compile"
      [] stmt = "compile" -> "execute"
      [] stmt = "execute" -> "open"
      [] stmt = "open" -> "write"
      [] stmt = "write" -> "return"

\* Where xsl_transform returns to: the driver's print, or the caller.
ReturnTo(e) == IF e = "driver" THEN "notice" ELSE "exit_ok"

\* The paths the driver passes: index.xml is input and output.
DriverArgs == [inDoc |-> IndexXml, xslFile |-> DedupXsl, outDoc |-> IndexXml]

CallArgs == [inDoc : Paths, xslFile : Paths, outDoc : Paths]

Terminal == {"exit_ok", "exit_fail"}

\* ------------------------------------------------------------------ initial files
IndexContents ==
    {NoFile, File(MalformedText)}
        \cup {File(IndexDoc(keys)) : keys \in SeqsUpTo(Keys, MaxCompounds)}

StylesheetContents ==
    {NoFile, File(<<OpenTag("xsl:stylesheet")>>),
     File(Stylesheet(Template("first-per-refid"))),
     File(Stylesheet(Template("identity"))),
     File(Stylesheet(Template("bad-xpath"))),
     File(Stylesheet(Message("terminate")))}

OtherContents == {NoFile, File(IndexDoc(<<"B", "B">>))}

Init ==
    /\ entry \in {"driver", "call"}
    /\ args \in IF entry = "driver" THEN {DriverArgs} ELSE CallArgs
    /\ fs \in {f \in [Paths -> IndexContents \cup StylesheetContents] :
                  /\ f[IndexXml] \in IndexContents
                  /\ f[DedupXsl] \in StylesheetContents
                  /\ f[OtherXml] \in OtherContents}
    /\ pc = "read_input"
    /\ doc = NoTree
    /\ xslt = NoTree
    /\ transform = NoTree
    /\ transformed_doc = NoTree
    /\ exc = ""
    /\ stdout = <<>>
    /\ log = <<>>
    /\ before = fs
    /\ runs = 1
    /\ prevOutcome = "none"

\* ------------------------------------------------------------------ statements
history == <<before, runs, prevOutcome>>

\* Mutant: the driver catches the exception and prints its message all the same.
RaiseThenNotice(e) == pc' = "notice" /\ exc' = e

\* Mutant: the exception is swallowed and the next statement runs.
RaiseAndContinue(e) ==
    /\ pc' = Following(pc)
    /\ exc' = e

\* An uncaught exception ends the run.
Raise(e) == pc' = "exit_fail" /\ exc' = e

\* Mutant: the output file is opened before the input is parsed.
ParseInDocAfterOpen ==
    /\ pc = "read_input"
    /\ log' = Append(log, "read_input")
    /\ fs' = OpenForWriting(fs, args.outDoc)
    /\ IF CanParse(fs[args.inDoc])
       THEN /\ doc' = Parse(fs[args.inDoc].text)
            /\ pc' = "read_stylesheet"
            /\ exc' = exc
       ELSE /\ pc' = "exit_fail"
            /\ exc' = ParseError(fs[args.inDoc])
            /\ doc' = doc
    /\ UNCHANGED <<entry, args, xslt, transform, transformed_doc, stdout,
                   before, runs, prevOutcome>>

\* line 6: doc = ET.parse(inDoc)
ParseInDoc ==
    /\ pc = "read_input"
    /\ log' = Append(log, "read_input")
    /\ IF CanParse(fs[args.inDoc])
       THEN /\ doc' = Parse(fs[args.inDoc].text)
            /\ pc' = Following(pc)
            /\ exc' = exc
       ELSE /\ Raise(ParseError(fs[args.inDoc]))
            /\ doc' = doc
    /\ UNCHANGED <<entry, args, fs, xslt, transform, transformed_doc, stdout, history>>

\* line 7: xslt = ET.parse(xslFile)
ParseXslFile ==
    /\ pc = "read_stylesheet"
    /\ log' = Append(log, "read_stylesheet")
    /\ IF CanParse(fs[args.xslFile])
       THEN /\ xslt' = Parse(fs[args.xslFile].text)
            /\ pc' = Following(pc)
            /\ exc' = exc
       ELSE /\ Raise(ParseError(fs[args.xslFile]))
            /\ xslt' = xslt
    /\ UNCHANGED <<entry, args, fs, doc, transform, transformed_doc, stdout, history>>

\* Mutant: the error of ET.XSLT is swallowed and the tree used as it is.
CompileStylesheetUnchecked ==
    /\ pc = "compile"
    /\ log' = Append(log, "compile")
    /\ transform' = xslt
    /\ pc' = "execute"
    /\ exc' = exc
    /\ UNCHANGED <<entry, args, fs, doc, xslt, transformed_doc, stdout,
                   before, runs, prevOutcome>>

\* line 8: transform = ET.XSLT(xslt)
CompileStylesheet ==
    /\ pc = "compile"
    /\ log' = Append(log, "compile")
    /\ IF Compiles(xslt)
       THEN /\ transform' = xslt
            /\ pc' = Following(pc)
            /\ exc' = exc
       ELSE /\ Raise("XSLTParseError")
            /\ transform' = transform
    /\ UNCHANGED <<entry, args, fs, doc, xslt, transformed_doc, stdout, history>>

\* Mutant: transform(xslt), the stylesheet applied to itself.
ExecuteTransformOnStylesheet ==
    /\ pc = "execute"
    /\ log' = Append(log, "execute")
    /\ IF Runs(transform)
       THEN /\ transformed_doc' = Apply(transform, xslt)
            /\ pc' = "open"
            /\ exc' = exc
       ELSE /\ pc' = "exit_fail"
            /\ exc' = "XSLTApplyError"
            /\ transformed_doc' = transformed_doc
    /\ UNCHANGED <<entry, args, fs, doc, xslt, transform, stdout,
                   before, runs, prevOutcome>>

\* line 9: transformed_doc = transform(doc)
ExecuteTransform ==
    /\ pc = "execute"
    /\ log' = Append(log, "execute")
    /\ IF Runs(transform)
       THEN /\ transformed_doc' = Apply(transform, doc)
            /\ pc' = Following(pc)
            /\ exc' = exc
       ELSE /\ Raise("XSLTApplyError")
            /\ transformed_doc' = transformed_doc
    /\ UNCHANGED <<entry, args, fs, doc, xslt, transform, stdout, history>>

\* line 10: with open(outDoc, 'w') as f.  Whether the path can be opened
\* for writing is the environment's choice.
OpenOutDoc ==
    /\ pc = "open"
    /\ log' = Append(log, "open")
    /\ \E writable \in BOOLEAN :
          IF writable
          THEN /\ fs' = OpenForWriting(fs, args.outDoc)
               /\ pc' = Following(pc)
               /\ exc' = exc
          ELSE /\ Raise("OSError")
               /\ fs' = fs
    /\ UNCHANGED <<entry, args, doc, xslt, transform, transformed_doc, stdout, history>>

\* line 11: print(transformed_doc, file=f), and the close of f that ends the
\* with block.  A write that fails (encoding, device) leaves a part of the text.
PrintToFile ==
    /\ pc = "write"
    /\ log' = Append(log, "write")
    /\ LET text == PrintedText(transformed_doc)
       IN  \/ /\ fs' = WriteText(fs, args.outDoc, text)
              /\ pc' = Following(pc)
              /\ exc' = exc
           \/ \E n \in 0..(Len(text) - 1) :
                 /\ fs' = WriteText(fs, args.outDoc, SubSeq(text, 1, n))
                 /\ Raise("OSError")
    /\ UNCHANGED <<entry, args, doc, xslt, transform, transformed_doc, stdout, history>>

\* line 12: return
Return ==
    /\ pc = "return"
    /\ pc' = ReturnTo(entry)
    /\ UNCHANGED <<entry, args, fs, doc, xslt, transform, transformed_doc, exc,
                   stdout, log, history>>

\* line 19: print('Removed duplicated <compound> elements in index.xml')
PrintNotice ==
    /\ pc = "notice"
    /\ log' = Append(log, "notice")
    /\ stdout' = Append(stdout, CompletionMessage)
    /\ pc' = "exit_ok"
    /\ UNCHANGED <<entry, args, fs, doc, xslt, transform, transformed_doc, exc, history>>

\* line 21: the script is run (or the function called) again on the files the
\* last run left; a new process with new locals and an empty standard output.
RunAgain ==
    /\ pc \in Terminal
    /\ runs < MaxRuns
    /\ runs' = runs + 1
    /\ prevOutcome' = IF pc = "exit_ok" THEN "success" ELSE "failure"
    /\ before' = fs
    /\ pc' = "read_input"
    /\ doc' = NoTree
    /\ xslt' = NoTree
    /\ transform' = NoTree
    /\ transformed_doc' = NoTree
    /\ exc' = ""
    /\ stdout' = <<>>
    /\ log' = <<>>
    /\ UNCHANGED <<entry, args, fs>>

Next ==
    \/ ParseInDoc
    \/ ParseXslFile
    \/ CompileStylesheet
    \/ ExecuteTransform
    \/ OpenOutDoc
    \/ PrintToFile
    \/ Return
    \/ PrintNotice
    \/ RunAgain

Spec == Init /\ [][Next]_vars

\* ------------------------------------------------------------------ properties
Started(step) == \E i \in 1..Len(log) : log[i] = step

LastStep == log[Len(log)]

\* xsl_transform has written its output and left the with block.
Written == pc \in {"return", "notice", "exit_ok"}

InPlace == args.outDoc = args.inDoc

IsPrefix(s, t) == Len(s) <= Len(t) /\ \A i \in 1..Len(s) : s[i] = t[i]

StepOrder ==
    <<"read_input", "read_stylesheet", "compile", "execute", "open", "write", "notice">>

MalformedInput ==
    before[args.inDoc].exists /\ ~WellFormed(before[args.inDoc].text)

\* C1: a call whose input document is not well-formed XML fails, and the
\* output file is never opened: it holds what it held before the call, also
\* when it is the input file.
C1_MalformedInputLeavesOutput ==
    MalformedInput =>
        /\ pc \in {"read_input", "exit_fail"}
        /\ log # <<>> => pc = "exit_fail" /\ exc = "XMLSyntaxError"
        /\ ~Started("open")
        /\ fs[args.outDoc] = before[args.outDoc]

C1_Witness ==
    /\ MalformedInput
    /\ InPlace
    /\ pc = "exit_fail"
    /\ log = <<"read_input">>

StylesheetRejected ==
    /\ CanParse(before[args.inDoc])
    /\ before[args.xslFile].exists
    /\ \/ ~WellFormed(before[args.xslFile].text)
       \/ ~Compiles(Parse(before[args.xslFile].text))

\* C2: with a well-formed input document and a stylesheet that is malformed
\* or that the compiler rejects, the call fails and the output file holds
\* what it held before the call.
C2_BadStylesheetLeavesOutput ==
    StylesheetRejected =>
        /\ pc \in {"read_input", "read_stylesheet", "compile", "exit_fail"}
        /\ pc = "exit_fail" => exc \in {"XMLSyntaxError", "XSLTParseError"}
        /\ ~Started("open")
        /\ fs[args.outDoc] = before[args.outDoc]

C2_Witness ==
    /\ StylesheetRejected
    /\ WellFormed(before[args.xslFile].text)
    /\ before[args.outDoc].exists
    /\ pc = "exit_fail"
    /\ exc = "XSLTParseError"

\* The text print() writes for the result of applying the stylesheet file to
\* the input file, both as they were when the call started.
ExpectedOutput ==
    PrintedText(Apply(Parse(before[args.xslFile].text),
                      Parse(before[args.inDoc].text)))

\* C3: after a successful call with outDoc = inDoc the file holds exactly the
\* printed serialization of the transform result (its line end included):
\* nothing of the old content remains, and no other file (a backup) has been
\* created or changed.
C3_InPlaceFullyReplaced ==
    (InPlace /\ Written) =>
        /\ fs[args.outDoc] = File(ExpectedOutput)
        /\ fs[args.outDoc].text = PrintedText(transformed_doc)
        /\ \A p \in Paths \ {args.outDoc} : fs[p] = before[p]

C3_Witness ==
    /\ InPlace
    /\ entry = "driver"
    /\ pc = "exit_ok"
    /\ Len(fs[args.outDoc].text) < Len(before[args.outDoc].text)

\* C4: the driver prints the completion message once, and only after
\* xsl_transform has returned with the output written; a run that fails
\* prints nothing.
C4_NoticeIffSuccess ==
    entry = "driver" =>
        /\ stdout = IF pc = "exit_ok" THEN <<CompletionMessage>> ELSE <<>>
        /\ stdout # <<>> =>
              /\ exc = ""
              /\ Started("write")
              /\ fs[args.outDoc].text = PrintedText(transformed_doc)
        /\ pc = "exit_fail" => exc # ""

C4_Witness ==
    /\ entry = "driver"
    /\ pc = "exit_ok"
    /\ stdout = <<CompletionMessage>>

\* C5: the steps of a run happen in the order read input, read stylesheet,
\* compile, execute, write (open, then print), notice, each at most once, and
\* a step starts only when all steps before it have succeeded.
C5_StepsInOrder ==
    /\ IsPrefix(log, StepOrder)
    /\ entry = "call" => ~Started("notice")
    /\ pc \notin Terminal \cup {"return"} =>
          /\ exc = ""
          /\ pc = StepOrder[Len(log) + 1]
    /\ pc = "return" => log = SubSeq(StepOrder, 1, 6) /\ exc = ""
    /\ Started("open") =>
          /\ doc = Parse(before[args.inDoc].text)
          /\ xslt = Parse(before[args.xslFile].text)
          /\ transform = xslt
          /\ transformed_doc = Apply(transform, doc)

C5_Witness ==
    /\ log = StepOrder
    /\ pc = "exit_ok"

\* The refids of a sequence of elements.
Refids(children) == {children[i].attr : i \in 1..Len(children)}

Occurrences(children, k) ==
    Cardinality({i \in 1..Len(children) : children[i].attr = k})

FirstIndex(children, k) ==
    CHOOSE i \in 1..Len(children) :
        /\ children[i].attr = k
        /\ \A j \in 1..(i - 1) : children[j].attr # k

InputChildren == Parse(before[args.inDoc].text).children

OutputChildren == Parse(fs[args.outDoc].text).children

\* The call started with a well-formed index document and the stylesheet that
\* keeps the first <compound> of each refid.
DedupCase ==
    /\ CanParse(before[args.inDoc])
    /\ Parse(before[args.inDoc].text).root = "index"
    /\ CanParse(before[args.xslFile])
    /\ Parse(before[args.xslFile].text) =
           Parse(Stylesheet(Template("first-per-refid")))

\* C6: for a well-formed index document and the first-per-key stylesheet the
\* written output is an index document that holds every refid of the input
\* once, no other refid, in the order of first occurrence in the input.
C6_EachKeyOnceInOrder ==
    (DedupCase /\ Written) =>
        /\ WellFormed(fs[args.outDoc].text)
        /\ Parse(fs[args.outDoc].text).root = "index"
        /\ \A i \in 1..Len(OutputChildren) : OutputChildren[i].n = "compound"
        /\ Refids(OutputChildren) = Refids(InputChildren)
        /\ \A k \in Refids(InputChildren) : Occurrences(OutputChildren, k) = 1
        /\ \A i, j \in 1..Len(OutputChildren) :
              i < j => FirstIndex(InputChildren, OutputChildren[i].attr)
                           < FirstIndex(InputChildren, OutputChildren[j].attr)

C6_Witness ==
    /\ DedupCase
    /\ Written
    /\ before[args.inDoc].text = IndexDoc(<<"B", "A", "B">>)
    /\ fs[args.outDoc].text = IndexDoc(<<"B", "A">>) \o <<NL>>

\* C7: a run in place on the output of a successful run in place finds a
\* document it can read and transform, and when it succeeds the file is what
\* the first run left.
C7_SecondRunChangesNothing ==
    (InPlace /\ prevOutcome = "success") =>
        /\ pc = "exit_fail" => LastStep \in {"open", "write"}
        /\ Written => fs[args.outDoc] = before[args.outDoc]

C7_Witness ==
    /\ InPlace
    /\ prevOutcome = "success"
    /\ DedupCase
    /\ Len(InputChildren) = 2
    /\ pc = "exit_ok"

\* C8 as stated: only the file at outDoc may change, the stylesheet file is
\* never modified, and the input file is not modified when outDoc # inDoc.
C8_StylesheetNeverModified ==
    /\ \A p \in Paths \ {args.outDoc} : fs[p] = before[p]
    /\ fs[args.xslFile] = before[args.xslFile]
    /\ args.outDoc # args.inDoc => fs[args.inDoc] = before[args.inDoc]

\* C8, amended: only the file at outDoc may change: the stylesheet file is
\* not modified when outDoc # xslFile, the input file is not modified when
\* outDoc # inDoc, and no other file is created or changed.
C8_OnlyOutDocChanges ==
    /\ DOMAIN fs = Paths
    /\ \A p \in Paths \ {args.outDoc} : fs[p] = before[p]
    /\ args.outDoc # args.xslFile => fs[args.xslFile] = before[args.xslFile]
    /\ args.outDoc # args.inDoc => fs[args.inDoc] = before[args.inDoc]

C8_Witness ==
    /\ args.outDoc # args.inDoc
    /\ args.outDoc # args.xslFile
    /\ pc = "exit_ok"
    /\ ~before[args.outDoc].exists
    /\ fs[args.outDoc].exists

\* C9: a run ends in success or in failure, never both: the first step that
\* fails ends the run at once with its exception, no step follows it or is
\* tried again, every other step is followed by the next one, and a run that
\* has ended stays ended.
C9_StateOk ==
    /\ pc = "exit_fail" <=> exc # ""
    /\ pc = "exit_fail" => LastStep # "notice"
    /\ pc = "exit_ok" => Started("write") /\ LastStep \in {"write", "notice"}
    /\ pc \notin Terminal => ENABLED Next
    /\ Len(log) <= Len(StepOrder)

C9_StepOk ==
    /\ (exc = "" /\ exc' # "") => pc' = "exit_fail" /\ log' = Append(log, pc)
    /\ (pc \in Terminal) => runs' = runs + 1 /\ pc' = "read_input"
    /\ (pc \notin Terminal \cup {"return"}) => log' = Append(log, pc)

C9_FirstFailureEndsRun == [](C9_StateOk) /\ [][C9_StepOk]_vars

C9_Witness ==
    /\ pc = "exit_fail"
    /\ exc = "XSLTApplyError"
    /\ log = SubSeq(StepOrder, 1, 4)

\* C10: the output file changes only in the write step (open, print), which
\* starts after parse, parse, compile and execute have succeeded; a run that
\* fails in execute or in open leaves it as it was, and a failed run that
\* left it different failed in print, after the file was opened.
C10_StateOk ==
    /\ fs[args.outDoc] # before[args.outDoc] =>
          /\ IsPrefix(SubSeq(StepOrder, 1, 5), log)
          /\ transformed_doc = Apply(Parse(before[args.xslFile].text),
                                     Parse(before[args.inDoc].text))
    /\ (pc = "exit_fail" /\ LastStep \in {"execute", "open"}) =>
          fs[args.outDoc] = before[args.outDoc]
    /\ (pc = "exit_fail" /\ fs[args.outDoc] # before[args.outDoc]) =>
          LastStep = "write"

C10_StepOk == fs' # fs => pc \in {"open", "write"}

C10_OutputChangesOnlyInWrite == [](C10_StateOk) /\ [][C10_StepOk]_vars

C10_Witness ==
    /\ InPlace
    /\ pc = "exit_fail"
    /\ LastStep = "write"
    /\ before[args.outDoc].exists
    /\ fs[args.outDoc] = File(<<>>)

====
